---- MODULE Spec2Model ----
(***************************************************************************)
(* Model of the measurement engine of networkquality                       *)
(* (src/network/quality.go): RunQualityTest and the three stages it runs,  *)
(* measureIdleLatency, measureDownloadSpeed and measureUploadSpeed.        *)
(*                                                                         *)
(* Time is the discrete clock `elapsed`, read from the startTime of the    *)
(* running throughput phase.  A time.Duration is a whole number of clock   *)
(* units and so is a duration here: a tick is the unit of the clock, read  *)
(* as one second for the 2-second sleep of the loaded-latency goroutine,   *)
(* and TestDuration / 2 is the integer division Go performs.  Two clock    *)
(* readings with no tick between them are equal, which is the case line    *)
(* 278 (duration == 0) provides for.  Byte counts are bytes, latencies are *)
(* milliseconds, bitrates are thousandths of a Mbps.                       *)
(***************************************************************************)
EXTENDS Integers, Sequences, FiniteSets

VARIABLES
    cfg,            \* the TestConfig handed to RunQualityTest
    rtt,            \* round-trip times the latency endpoint answers with
    dstatus,        \* status codes the download endpoint answers with
    peer,           \* totalBytes of a second, concurrent call, and its history
    pc,             \* position of RunQualityTest
    cancelled,      \* ctx.Done() is closed
    elapsed,        \* time.Since(startTime) of the running phase, in ticks
    sampler,        \* which activation of measureIdleLatency exists
    i,              \* measureIdleLatency: loop index
    successCount,   \* measureIdleLatency: successCount
    totalLatency,   \* measureIdleLatency: totalLatency (ms)
    unpaced,        \* history: a probe was followed at once by the next
    latencyChan,    \* measureDownloadSpeed: latencyChan (capacity 1)
    wpc,            \* position of each worker goroutine of the phase
    started,        \* requests the workers of the phase have started
    wurl,           \* server index of the worker's request in flight
    wbytes,         \* bytes the worker is about to add
    wtmp,           \* totalBytes as loaded by the worker's +=
    mu,             \* holder of the phase's sync.Mutex
    totalBytes,     \* the phase's shared byte counter
    counted,        \* history: sum of the bytes of all counted attempts
    accepted,       \* history: number of counted attempts of the phase
    netIO,          \* history: kinds of request that reached the network
    interrupted,    \* history: an in-flight request was ended by ctx
    lateStart,      \* history: an attempt was started with ctx already done
    lateAttempt,    \* history: an attempt was started at or after the deadline
    badCounted,     \* history: an upload outside [200,400) was counted
    hits,           \* history: upload servers a request was sent to
    dcodes,         \* history: status codes of download responses, by fate
    allFailed,      \* history: the sampling passes with no successful probe
    downloaded,     \* history: bytes and ticks of the finished download phase
    duration,       \* measureDownloadSpeed: duration, in ticks
    idleLatency,    \* RunQualityTest: idleLatency
    loadedLatency,  \* RunQualityTest: loadedLatency
    downloadMbps,   \* RunQualityTest: downloadMbps
    result,         \* returned *QualityResult: << >> is nil
    err             \* returned error: "" is nil

samplerVars == << sampler, i, successCount, totalLatency, unpaced >>
workerVars ==
    << wpc, started, wurl, wbytes, wtmp, mu, totalBytes, counted, accepted >>
histVars ==
    << netIO, interrupted, lateStart, lateAttempt, badCounted, hits, dcodes,
       allFailed, downloaded >>
outVars ==
    << duration, idleLatency, loadedLatency, downloadMbps, result, err >>

vars ==
    << cfg, rtt, dstatus, peer, pc, cancelled, elapsed, latencyChan,
       samplerVars, workerVars, histVars, outVars >>

(***************************************************************************)
(* Bounds of the model.                                                    *)
(***************************************************************************)
MaxDur == 2          \* largest TestDuration, in ticks
MaxConn == 2         \* largest NumConnections
MaxAttempts == 2     \* requests the workers of one phase may start
Overrun == 1         \* ticks the clock may run past the end of a phase
MaxPeerAdds == 2     \* attempts a second, concurrent call may count

(***************************************************************************)
(* Program constants.                                                      *)
(***************************************************************************)
numTests == 10               \* probes of one sampling pass
LoadDelay == 2               \* time.Sleep(2 * time.Second), in ticks
DefaultChunkSize == 524288   \* 512 * 1024

(***************************************************************************)
(* Inputs: what the caller configures and what the network answers.        *)
(***************************************************************************)
Latencies == {150}           \* round-trip time of a successful probe, ms
BodySizes == {125000}        \* bytes read from one download response
ChunkSizes == {0, 125000}    \* TestConfig.UploadChunkSize
StatusCodes == {199, 200, 399, 400, 500}   \* status of an upload response
DownloadStatus == {200}      \* status of a download response
ServerCounts == {0, 1}       \* len(TestServers), len(UploadServers)

Workers == 0 .. (MaxConn - 1)
NoOwner == 0 - 1
NoURL == 0 - 1

Configs ==
    [ dur : 0 .. MaxDur, nDown : ServerCounts, nUp : ServerCounts,
      conn : 0 .. MaxConn, chunk : ChunkSizes ]

(***************************************************************************)
(* The errors RunQualityTest returns.                                      *)
(***************************************************************************)
ErrDuration == "test duration must be positive"
ErrNoDownload == "no download test servers configured"
ErrIdle == "failed to measure idle latency: all latency tests failed"
ErrDownload == "failed to measure download speed"
ErrNoUpload == "failed to measure upload speed: no upload servers configured"
ErrZeroDuration == "failed to measure upload speed: upload duration was zero"

(***************************************************************************)
(* Pure helpers.                                                           *)
(***************************************************************************)
DurationNegative(c) == c.dur < 0

\* config.TestDuration <= 0
DurationInvalid(c) == c.dur <= 0

NeverNoDownload(c) == FALSE

\* len(config.TestServers) == 0
NoDownloadServers(c) == c.nDown = 0

NeverNoUpload(c) == FALSE

\* len(config.UploadServers) == 0
NoUploadServers(c) == c.nUp = 0

\* chunkSize := config.UploadChunkSize; if chunkSize <= 0 { default }
ChunkSize(c) == IF c.chunk <= 0 THEN DefaultChunkSize ELSE c.chunk

\* math.Round(x) for x = num/den >= 0: half away from zero.
RoundDiv(num, den) == (2 * num + den) \div (2 * den)

\* mbps := (float64(totalBytes) * 8) / (duration * 1000000), rounded to
\* 3 decimals; the value is kept in thousandths of a Mbps, that is
\* round(bytes * 8 / (duration * 1000)).  A zero duration divides by
\* zero: 0/0 is NaN and x/0 is +Inf in float64.
Mbps(bytes, d) ==
    IF d = 0
    THEN IF bytes = 0 THEN [kind |-> "NaN", milli |-> 0]
                      ELSE [kind |-> "Inf", milli |-> 0]
    ELSE [kind |-> "num", milli |-> RoundDiv(bytes * 8, d * 1000)]

\* var totalBytes int64 of a call that has counted nothing
NoPeer == [totalBytes |-> 0, counted |-> 0]

NoPhase == [bytes |-> 0 - 1, ticks |-> 0 - 1]
NoCodes == [counted |-> {}, skipped |-> {}]
NoMbps == [kind |-> "none", milli |-> 0]
ZeroMbps == [kind |-> "num", milli |-> 0]

\* if successCount == 0 { return 0, fmt.Errorf("all latency tests failed") }
NoSample(count) == count = 0

AvgOverAll(total, count) == total \div numTests

\* avgLatency := totalLatency / time.Duration(successCount), in whole ms.
AvgLatency(total, count) == total \div count

\* latency, _ := measureIdleLatency(ctx, latencyURL): the error is dropped
\* and the 0 returned with it is what the goroutine sends.
LoadedValue(total, count) ==
    IF NoSample(count) THEN 0 ELSE AvgLatency(total, count)

SendsOnSuccess(count) == ~NoSample(count)

\* latencyChan <- latency (line 162) follows the pass unconditionally: its
\* error was dropped on line 161.
Sends(count) == TRUE

ClassifyInclusive(ms) ==
    IF ms <= 200 THEN "High" ELSE IF ms <= 1000 THEN "Medium" ELSE "Low"

\* if loadedLatency < 200 ... else if loadedLatency < 1000 ... else
Classify(ms) ==
    IF ms < 200 THEN "High" ELSE IF ms < 1000 THEN "Medium" ELSE "Low"

DownloadCountsStatusOK(code) == code >= 200 /\ code < 400

\* bytes, _ := io.Copy(io.Discard, resp.Body) ... totalBytes += bytes
\* (lines 188-193): resp.StatusCode is never read.
DownloadCounts(code) == TRUE

StatusNotError(code) == code < 400

\* statusOK := resp.StatusCode >= http.StatusOK && resp.StatusCode < 400
StatusOK(code) == code >= 200 /\ code < 400

DownloadFailsOnZeroDuration(d, bytes) == d = 0

DownloadFailsWhenCancelled(d, bytes) == cancelled

\* return math.Round(mbps*1000) / 1000, loadedLatency, nil: the only return
\* of measureDownloadSpeed, its error is nil whatever was measured.
DownloadFails(d, bytes) == FALSE

UploadFailsOnZeroBytes(d, bytes) == d = 0 \/ bytes = 0

\* if duration == 0 { return 0, fmt.Errorf("upload duration was zero") }
UploadFails(d, bytes) == d = 0

PackageLevelCounter == TRUE

\* var totalBytes int64 (lines 145, 223) is declared inside the function:
\* every call has a counter of its own, shared with no other call.
SharedCounter == FALSE

MuIgnored == TRUE

\* sync.Mutex: Lock() returns only while nobody holds the mutex.
MuAvailable == mu = NoOwner

CtxIgnored == FALSE

\* select { case <-ctx.Done(): return; default: }
CtxDone == cancelled

Running(w) == wpc[w] \in {"loop", "inflight", "lock", "add"}

AllWorkersDoneNoWait == TRUE

AllWorkersExited == \A w \in Workers : wpc[w] = "done"

\* wg.Wait(): every worker of the phase has run its deferred wg.Done().
AllWorkersDone == \A w \in Workers : ~Running(w)

SpawnOneMore(n) == [w \in Workers |-> IF w <= n THEN "loop" ELSE "none"]

\* for i := 0; i < config.NumConnections; i++ { wg.Add(1); go func() ... }
Spawn(n) == [w \in Workers |-> IF w < n THEN "loop" ELSE "none"]

Zero == [w \in Workers |-> 0]

TargetLast(w, c) == (c.conn - 1) % c.nUp

\* serverURL := config.UploadServers[i%len(config.UploadServers)], handed
\* to goroutine i as its parameter target
Target(w, c) == w % c.nUp

DownloadDeadlineLate == cfg.dur + 1

\* deadline := startTime.Add(config.TestDuration), from startTime
DownloadDeadline == cfg.dur

\* deadline := startTime.Add(config.TestDuration / 2), from startTime
UploadDeadline == cfg.dur \div 2

Max(a, b) == IF a >= b THEN a ELSE b

NominalDeadline == IF pc = "upload" THEN cfg.dur \div 2 ELSE cfg.dur

\* time.Since(startTime) (lines 199, 277)
SinceStart == elapsed

\* The state in which RunQualityTest is called: a configuration of
\* configs, a latency endpoint that answers within one of latencies.
InitWith(configs, latencies) ==
    /\ cfg \in configs
    /\ rtt = latencies
    /\ dstatus = DownloadStatus
    /\ peer = NoPeer
    /\ pc = "start"
    /\ cancelled = FALSE
    /\ elapsed = 0
    /\ sampler = "off"
    /\ i = 0
    /\ successCount = 0
    /\ totalLatency = 0
    /\ unpaced = FALSE
    /\ latencyChan = << >>
    /\ wpc = [w \in Workers |-> "none"]
    /\ started = 0
    /\ wurl = [w \in Workers |-> NoURL]
    /\ wbytes = Zero
    /\ wtmp = Zero
    /\ mu = NoOwner
    /\ totalBytes = 0
    /\ counted = 0
    /\ accepted = 0
    /\ netIO = {}
    /\ interrupted = FALSE
    /\ lateStart = FALSE
    /\ lateAttempt = FALSE
    /\ badCounted = FALSE
    /\ hits = {}
    /\ dcodes = NoCodes
    /\ allFailed = {}
    /\ downloaded = NoPhase
    /\ duration = 0
    /\ idleLatency = 0
    /\ loadedLatency = 0
    /\ downloadMbps = NoMbps
    /\ result = << >>
    /\ err = ""

Init == InitWith(Configs, Latencies)

FailPartial(e) ==
    /\ pc' = "done"
    /\ result' = << [ UplinkCapacity |-> NoMbps,
                      DownlinkCapacity |-> downloadMbps,
                      IdleLatency |-> idleLatency,
                      ResponsivenessMs |-> loadedLatency,
                      Responsiveness |-> "" ] >>
    /\ err' = e

\* return nil, fmt.Errorf(...)
Fail(e) ==
    /\ pc' = "done"
    /\ result' = << >>
    /\ err' = e

\* measureIdleLatency is entered: its locals are fresh.
SamplerStart(which) ==
    /\ sampler' = which
    /\ i' = 0
    /\ successCount' = 0
    /\ totalLatency' = 0
    /\ unpaced' = FALSE

(***************************************************************************)
(* RunQualityTest, lines 52-71: the two precondition checks, then the call *)
(* of measureIdleLatency.                                                  *)
(***************************************************************************)
RunQualityTest ==
    /\ pc = "start"
    /\ IF DurationInvalid(cfg)
       THEN /\ Fail(ErrDuration)
            /\ UNCHANGED samplerVars
       ELSE IF NoDownloadServers(cfg)
       THEN /\ Fail(ErrNoDownload)
            /\ UNCHANGED samplerVars
       ELSE /\ pc' = "idle"
            /\ SamplerStart("idle")
            /\ UNCHANGED << result, err >>
    /\ UNCHANGED << cfg, rtt, dstatus, peer, cancelled, elapsed, latencyChan,
                    workerVars, histVars, duration, idleLatency, loadedLatency,
                    downloadMbps >>

(***************************************************************************)
(* measureIdleLatency, lines 114-133: one iteration of the probe loop.     *)
(* The request carries ctx: once ctx is done it fails before any I/O.      *)
(* A successful iteration ends with time.Sleep(100 * time.Millisecond)     *)
(* (line 132); a failed one leaves by continue (lines 119, 124) and, when  *)
(* it is not the last, the next iteration starts at once.                  *)
(***************************************************************************)
Probe ==
    /\ sampler \in {"idle", "loaded"}
    /\ i < numTests
    /\ i' = i + 1
    /\ \/ /\ ~cancelled
          /\ \E l \in rtt :
                /\ totalLatency' = totalLatency + l
                /\ successCount' = successCount + 1
                /\ UNCHANGED unpaced
       \/ /\ unpaced' = (unpaced \/ i + 1 < numTests)
          /\ UNCHANGED << totalLatency, successCount >>
    /\ netIO' = IF cancelled THEN netIO ELSE netIO \cup {"latency"}
    /\ UNCHANGED << cfg, rtt, dstatus, peer, pc, cancelled, elapsed, sampler,
                    latencyChan, workerVars, interrupted, lateStart,
                    lateAttempt, badCounted, hits, dcodes, allFailed,
                    downloaded, outVars >>

(***************************************************************************)
(* measureIdleLatency returns to RunQualityTest (lines 135-140, 71-74),    *)
(* which calls measureDownloadSpeed (lines 144-196): the timer, the        *)
(* loaded-latency goroutine and NumConnections download workers.           *)
(***************************************************************************)
IdleLatencyReturn ==
    /\ pc = "idle"
    /\ sampler = "idle"
    /\ i = numTests
    /\ allFailed' = IF successCount = 0 THEN allFailed \cup {"idle"}
                                        ELSE allFailed
    /\ i' = 0
    /\ successCount' = 0
    /\ totalLatency' = 0
    /\ unpaced' = FALSE
    /\ IF NoSample(successCount)
       THEN /\ Fail(ErrIdle)
            /\ sampler' = "off"
            /\ UNCHANGED << idleLatency, wpc >>
       ELSE /\ idleLatency' = AvgLatency(totalLatency, successCount)
            /\ pc' = "download"
            /\ sampler' = "sleep"
            /\ wpc' = Spawn(cfg.conn)
            /\ UNCHANGED << result, err >>
    /\ UNCHANGED << cfg, rtt, dstatus, peer, cancelled, elapsed, latencyChan,
                    started, wurl, wbytes, wtmp, mu, totalBytes, counted,
                    accepted, netIO, interrupted, lateStart, lateAttempt,
                    badCounted, hits, dcodes, downloaded, duration,
                    loadedLatency, downloadMbps >>

(***************************************************************************)
(* The loaded-latency goroutine, lines 159-163: the sleep, the sampling    *)
(* pass (Probe), the send.                                                 *)
(***************************************************************************)
LoadedWake ==
    /\ sampler = "sleep"
    /\ elapsed >= LoadDelay
    /\ SamplerStart("loaded")
    /\ UNCHANGED << cfg, rtt, dstatus, peer, pc, cancelled, elapsed,
                    latencyChan, workerVars, histVars, outVars >>

LoadedSend ==
    /\ sampler = "loaded"
    /\ i = numTests
    /\ Len(latencyChan) < 1
    /\ latencyChan' =
          IF Sends(successCount)
          THEN Append(latencyChan, LoadedValue(totalLatency, successCount))
          ELSE latencyChan
    /\ allFailed' = IF successCount = 0 THEN allFailed \cup {"loaded"}
                                        ELSE allFailed
    /\ sampler' = "sent"
    /\ i' = 0
    /\ successCount' = 0
    /\ totalLatency' = 0
    /\ unpaced' = FALSE
    /\ UNCHANGED << cfg, rtt, dstatus, peer, pc, cancelled, elapsed,
                    workerVars, netIO, interrupted, lateStart, lateAttempt,
                    badCounted, hits, dcodes, downloaded, outVars >>

(***************************************************************************)
(* A download worker, lines 168-195.                                       *)
(***************************************************************************)
DownloadLoop(w) ==
    /\ pc = "download"
    /\ wpc[w] = "loop"
    /\ IF ~(elapsed < DownloadDeadline) \/ CtxDone
       THEN /\ wpc' = [wpc EXCEPT ![w] = "done"]
            /\ UNCHANGED << started, wurl, netIO >>
       ELSE /\ started < MaxAttempts
            /\ wpc' = [wpc EXCEPT ![w] = "inflight"]
            /\ started' = started + 1
            /\ wurl' = [wurl EXCEPT ![w] = 0]
            /\ netIO' = netIO \cup {"download"}
    /\ lateStart' = (lateStart \/ (cancelled /\ wpc'[w] = "inflight"))
    /\ lateAttempt' =
          (lateAttempt \/ (wpc'[w] = "inflight" /\ elapsed >= cfg.dur))
    /\ UNCHANGED << cfg, rtt, dstatus, peer, pc, cancelled, elapsed,
                    latencyChan, samplerVars, wbytes, wtmp, mu, totalBytes,
                    counted, accepted, interrupted, badCounted, hits, dcodes,
                    allFailed, downloaded, outVars >>

\* client.Do and io.Copy: an error of client.Do continues the loop, any
\* response, whatever its status code, has its body counted.
DownloadComplete(w) ==
    /\ pc = "download"
    /\ wpc[w] = "inflight"
    /\ wurl' = [wurl EXCEPT ![w] = NoURL]
    /\ \/ /\ wpc' = [wpc EXCEPT ![w] = "loop"]
          /\ UNCHANGED << wbytes, counted, accepted, dcodes >>
       \/ \E code \in dstatus, b \in BodySizes :
             IF DownloadCounts(code)
             THEN /\ wpc' = [wpc EXCEPT ![w] = "lock"]
                  /\ wbytes' = [wbytes EXCEPT ![w] = b]
                  /\ counted' = counted + b
                  /\ accepted' = accepted + 1
                  /\ dcodes' = [dcodes EXCEPT !.counted = @ \cup {code}]
             ELSE /\ wpc' = [wpc EXCEPT ![w] = "loop"]
                  /\ dcodes' = [dcodes EXCEPT !.skipped = @ \cup {code}]
                  /\ UNCHANGED << wbytes, counted, accepted >>
    /\ UNCHANGED << cfg, rtt, dstatus, peer, pc, cancelled, elapsed,
                    latencyChan, samplerVars, started, wtmp, mu, totalBytes,
                    netIO, interrupted, lateStart, lateAttempt, badCounted,
                    hits, allFailed, downloaded, outVars >>

(***************************************************************************)
(* mu.Lock(); totalBytes += n; mu.Unlock()  (lines 191-193, 269-271).      *)
(* The += is a load and a store.                                           *)
(***************************************************************************)
Lock(w) ==
    /\ wpc[w] = "lock"
    /\ MuAvailable
    /\ mu' = w
    /\ wtmp' = [wtmp EXCEPT ![w] = totalBytes]
    /\ wpc' = [wpc EXCEPT ![w] = "add"]
    /\ UNCHANGED << cfg, rtt, dstatus, peer, pc, cancelled, elapsed,
                    latencyChan, samplerVars, started, wurl, wbytes,
                    totalBytes, counted, accepted, histVars, outVars >>

Unlock(w) ==
    /\ wpc[w] = "add"
    /\ totalBytes' = wtmp[w] + wbytes[w]
    /\ mu' = NoOwner
    /\ wtmp' = [wtmp EXCEPT ![w] = 0]
    /\ wbytes' = [wbytes EXCEPT ![w] = 0]
    /\ wpc' = [wpc EXCEPT ![w] = "loop"]
    /\ UNCHANGED << cfg, rtt, dstatus, peer, pc, cancelled, elapsed,
                    latencyChan, samplerVars, started, wurl, counted, accepted,
                    histVars, outVars >>

(***************************************************************************)
(* The request of a worker carries ctx (lines 178, 249): cancelling ctx    *)
(* ends a request in flight with an error of client.Do.                    *)
(***************************************************************************)
RequestCancelled(w) ==
    /\ pc \in {"download", "upload"}
    /\ wpc[w] = "inflight"
    /\ wurl' = [wurl EXCEPT ![w] = NoURL]
    /\ cancelled
    /\ wpc' = [wpc EXCEPT ![w] = "loop"]
    /\ interrupted' = TRUE
    /\ UNCHANGED << cfg, rtt, dstatus, peer, pc, cancelled, elapsed,
                    latencyChan, samplerVars, started, wbytes, wtmp, mu,
                    totalBytes, counted, accepted, netIO, lateStart,
                    lateAttempt, badCounted, hits, dcodes, allFailed,
                    downloaded, outVars >>

(***************************************************************************)
(* measureDownloadSpeed, lines 198-199: the barrier and the elapsed time.  *)
(***************************************************************************)
DownloadWait ==
    /\ pc = "download"
    /\ AllWorkersDone
    /\ pc' = "receive"
    /\ duration' = SinceStart
    /\ UNCHANGED << cfg, rtt, dstatus, peer, cancelled, elapsed, latencyChan,
                    samplerVars, workerVars, histVars, idleLatency,
                    loadedLatency, downloadMbps, result, err >>

(***************************************************************************)
(* measureDownloadSpeed, lines 202-207, returns to RunQualityTest (lines   *)
(* 76-81), which calls measureUploadSpeed (lines 211-274).                 *)
(***************************************************************************)
DownloadReturn ==
    /\ pc = "receive"
    /\ Len(latencyChan) > 0
    /\ loadedLatency' = Head(latencyChan)
    /\ latencyChan' = Tail(latencyChan)
    /\ downloadMbps' = Mbps(totalBytes, duration)
    /\ downloaded' = [bytes |-> totalBytes, ticks |-> duration]
    /\ duration' = 0
    /\ sampler' = "off"
    /\ totalBytes' = 0
    /\ counted' = 0
    /\ accepted' = 0
    /\ started' = 0
    /\ IF DownloadFails(duration, totalBytes)
       THEN /\ Fail(ErrDownload)
            /\ wpc' = [w \in Workers |-> "none"]
            /\ UNCHANGED elapsed
       ELSE IF NoUploadServers(cfg)
       THEN /\ Fail(ErrNoUpload)
            /\ wpc' = [w \in Workers |-> "none"]
            /\ UNCHANGED elapsed
       ELSE /\ pc' = "upload"
            /\ elapsed' = 0
            /\ wpc' = Spawn(cfg.conn)
            /\ UNCHANGED << result, err >>
    /\ UNCHANGED << cfg, rtt, dstatus, peer, cancelled, i, successCount,
                    totalLatency, unpaced, wurl, wbytes, wtmp, mu, netIO,
                    interrupted, lateStart, lateAttempt, badCounted, hits,
                    dcodes, allFailed, idleLatency >>

(***************************************************************************)
(* An upload worker, lines 238-273.                                        *)
(***************************************************************************)
UploadLoop(w) ==
    /\ pc = "upload"
    /\ wpc[w] = "loop"
    /\ IF ~(elapsed < UploadDeadline) \/ CtxDone
       THEN /\ wpc' = [wpc EXCEPT ![w] = "done"]
            /\ UNCHANGED << started, wurl, netIO, hits >>
       ELSE /\ started < MaxAttempts
            /\ wpc' = [wpc EXCEPT ![w] = "inflight"]
            /\ started' = started + 1
            /\ wurl' = [wurl EXCEPT ![w] = Target(w, cfg)]
            /\ hits' = hits \cup {Target(w, cfg)}
            /\ netIO' = netIO \cup {"upload"}
    /\ lateStart' = (lateStart \/ (cancelled /\ wpc'[w] = "inflight"))
    /\ lateAttempt' =
          (lateAttempt
             \/ (wpc'[w] = "inflight" /\ elapsed >= cfg.dur \div 2))
    /\ UNCHANGED << cfg, rtt, dstatus, peer, pc, cancelled, elapsed,
                    latencyChan, samplerVars, wbytes, wtmp, mu, totalBytes,
                    counted, accepted, interrupted, badCounted, dcodes,
                    allFailed, downloaded, outVars >>

UploadComplete(w) ==
    /\ pc = "upload"
    /\ wpc[w] = "inflight"
    /\ wurl' = [wurl EXCEPT ![w] = NoURL]
    /\ \/ /\ wpc' = [wpc EXCEPT ![w] = "loop"]
          /\ UNCHANGED << wbytes, counted, accepted, badCounted >>
       \/ \E code \in StatusCodes :
             IF StatusOK(code)
             THEN /\ wpc' = [wpc EXCEPT ![w] = "lock"]
                  /\ wbytes' = [wbytes EXCEPT ![w] = ChunkSize(cfg)]
                  /\ counted' = counted + ChunkSize(cfg)
                  /\ accepted' = accepted + 1
                  /\ badCounted' = (badCounted \/ code < 200 \/ code >= 400)
             ELSE /\ wpc' = [wpc EXCEPT ![w] = "loop"]
                  /\ UNCHANGED << wbytes, counted, accepted, badCounted >>
    /\ UNCHANGED << cfg, rtt, dstatus, peer, pc, cancelled, elapsed,
                    latencyChan, samplerVars, started, wtmp, mu, totalBytes,
                    netIO, interrupted, hits, dcodes, lateStart, lateAttempt,
                    allFailed, downloaded, outVars >>

(***************************************************************************)
(* measureUploadSpeed, lines 276-284, returns to RunQualityTest, which     *)
(* assembles and classifies the result (lines 82-101).                     *)
(***************************************************************************)
UploadReturn ==
    /\ pc = "upload"
    /\ AllWorkersDone
    /\ IF UploadFails(SinceStart, totalBytes)
       THEN Fail(ErrZeroDuration)
       ELSE /\ pc' = "done"
            /\ result' = << [ UplinkCapacity |-> Mbps(totalBytes, SinceStart),
                              DownlinkCapacity |-> downloadMbps,
                              IdleLatency |-> idleLatency,
                              ResponsivenessMs |-> loadedLatency,
                              Responsiveness |-> Classify(loadedLatency) ] >>
            /\ err' = ""
    /\ UNCHANGED << cfg, rtt, dstatus, peer, cancelled, elapsed, latencyChan,
                    samplerVars, workerVars, histVars, duration, idleLatency,
                    loadedLatency, downloadMbps >>

(***************************************************************************)
(* The environment: the caller cancels ctx; the clock advances.            *)
(***************************************************************************)
Cancel ==
    /\ ~cancelled
    /\ pc # "done"
    /\ cancelled' = TRUE
    /\ UNCHANGED << cfg, rtt, dstatus, peer, pc, elapsed, latencyChan,
                    samplerVars, workerVars, histVars, outVars >>

PhaseEnd ==
    IF pc = "upload" THEN UploadDeadline ELSE Max(DownloadDeadline, LoadDelay)

Tick ==
    /\ pc \in {"download", "receive", "upload"}
    /\ elapsed < PhaseEnd + Overrun
    /\ elapsed' = elapsed + 1
    /\ UNCHANGED << cfg, rtt, dstatus, peer, pc, cancelled, latencyChan,
                    samplerVars, workerVars, histVars, outVars >>

Next ==
    \/ RunQualityTest
    \/ Probe
    \/ IdleLatencyReturn
    \/ LoadedWake
    \/ LoadedSend
    \/ \E w \in Workers : DownloadLoop(w)
    \/ \E w \in Workers : DownloadComplete(w)
    \/ \E w \in Workers : Lock(w)
    \/ \E w \in Workers : Unlock(w)
    \/ \E w \in Workers : RequestCancelled(w)
    \/ DownloadWait
    \/ DownloadReturn
    \/ \E w \in Workers : UploadLoop(w)
    \/ \E w \in Workers : UploadComplete(w)
    \/ UploadReturn
    \/ Cancel
    \/ Tick

Spec == Init /\ [][Next]_vars

(***************************************************************************)
(* Scheduling.  The Go runtime runs every runnable goroutine, the clock    *)
(* advances, and every request completes or times out (the clients of      *)
(* lines 106, 149 and 227 carry a Timeout): a step of the program that     *)
(* stays possible is eventually taken.  Cancelling ctx is up to the        *)
(* caller and is not required to happen.                                   *)
(***************************************************************************)
Progress ==
    \/ RunQualityTest
    \/ Probe
    \/ IdleLatencyReturn
    \/ LoadedWake
    \/ LoadedSend
    \/ \E w \in Workers : DownloadLoop(w)
    \/ \E w \in Workers : DownloadComplete(w)
    \/ \E w \in Workers : Lock(w)
    \/ \E w \in Workers : Unlock(w)
    \/ \E w \in Workers : RequestCancelled(w)
    \/ DownloadWait
    \/ DownloadReturn
    \/ \E w \in Workers : UploadLoop(w)
    \/ \E w \in Workers : UploadComplete(w)
    \/ UploadReturn
    \/ Tick

FairSpec == Spec /\ WF_vars(Progress)

(***************************************************************************)
(* The run inside measureUploadSpeed, the idle pass and the download stage *)
(* behind it: the workers of every launched goroutine stand at position,   *)
(* the clock reads one of clock, the download stage returned one of loaded *)
(* as the loaded latency.  A worker that has finished did so on its        *)
(* deadline or on cancellation.                                            *)
(***************************************************************************)
UploadStage(configs, position, clock, loaded) ==
    /\ cfg \in configs
    /\ rtt = Latencies
    /\ dstatus = DownloadStatus
    /\ peer = NoPeer
    /\ pc = "upload"
    /\ cancelled \in BOOLEAN
    /\ elapsed \in clock
    /\ position = "done" =>
          (cfg.conn = 0 \/ cancelled \/ elapsed >= cfg.dur \div 2)
    /\ sampler = "off"
    /\ i = 0
    /\ successCount = 0
    /\ totalLatency = 0
    /\ unpaced = FALSE
    /\ latencyChan = << >>
    /\ wpc = [w \in Workers |-> IF w < cfg.conn THEN position ELSE "none"]
    /\ started = 0
    /\ wurl = [w \in Workers |-> NoURL]
    /\ wbytes = Zero
    /\ wtmp = Zero
    /\ mu = NoOwner
    /\ totalBytes = 0
    /\ counted = 0
    /\ accepted = 0
    /\ netIO = {"latency"}
    /\ interrupted = FALSE
    /\ lateStart = FALSE
    /\ lateAttempt = FALSE
    /\ badCounted = FALSE
    /\ hits = {}
    /\ dcodes = NoCodes
    /\ allFailed = {}
    /\ downloaded = [bytes |-> 0, ticks |-> cfg.dur]
    /\ duration = 0
    /\ idleLatency \in Latencies
    /\ loadedLatency \in loaded
    /\ downloadMbps = Mbps(0, cfg.dur)
    /\ result = << >>
    /\ err = ""

(***************************************************************************)
(* RunQualityTest, lines 86-101, taken alone: the run stands at the        *)
(* barrier of measureUploadSpeed with every worker finished, and the       *)
(* loaded latency the download stage returned is any whole number of       *)
(* milliseconds of LoadedLatencies.                                        *)
(***************************************************************************)
LoadedLatencies == 0 .. 1200

BarrierConfigs ==
    {c \in Configs : c.dur = 2 /\ c.nDown = 1 /\ c.nUp = 1 /\ c.chunk = 0}

InitClassify == UploadStage(BarrierConfigs, "done", 0 .. 2, LoadedLatencies)

NextClassify == UploadReturn

SpecClassify == InitClassify /\ [][NextClassify]_vars

(***************************************************************************)
(* The run without workers (NumConnections = 0): the two sampling passes   *)
(* of measureIdleLatency against an endpoint whose successful probes take  *)
(* either of two round-trip times.                                         *)
(***************************************************************************)
SampleLatencies == {100, 201}

NoWorkerConfigs == {c \in Configs : c.conn = 0 /\ c.chunk = 0}

InitSampler == InitWith(NoWorkerConfigs, SampleLatencies)

NextSampler ==
    \/ RunQualityTest
    \/ Probe
    \/ IdleLatencyReturn
    \/ LoadedWake
    \/ LoadedSend
    \/ DownloadWait
    \/ DownloadReturn
    \/ UploadReturn
    \/ Cancel
    \/ Tick

SpecSampler == InitSampler /\ [][NextSampler]_vars

(***************************************************************************)
(* measureUploadSpeed taken alone, lines 216-284, entered with any number  *)
(* of upload servers and any chunk size.                                   *)
(***************************************************************************)
UploadServerCounts == {1, 2, 3}

UploadChunkSizes == {0 - 1, 0, 1, 125000}

UploadConfigs ==
    [ dur : 1 .. MaxDur, nDown : {1}, nUp : UploadServerCounts,
      conn : 0 .. MaxConn, chunk : UploadChunkSizes ]

InitUpload == UploadStage(UploadConfigs, "loop", {0}, Latencies)

NextUpload ==
    \/ \E w \in Workers : UploadLoop(w)
    \/ \E w \in Workers : UploadComplete(w)
    \/ \E w \in Workers : Lock(w)
    \/ \E w \in Workers : Unlock(w)
    \/ \E w \in Workers : RequestCancelled(w)
    \/ UploadReturn
    \/ Cancel
    \/ Tick

SpecUpload == InitUpload /\ [][NextUpload]_vars

(***************************************************************************)
(* Two calls of RunQualityTest at once.  The second call is seen through   *)
(* the one step by which it could touch the first: a worker of it counts   *)
(* an attempt, mu.Lock(); totalBytes += bytes; mu.Unlock() (lines          *)
(* 191-193), on the totalBytes and the mu of its own activation.           *)
(***************************************************************************)
PeerAdd ==
    /\ peer.counted < MaxPeerAdds * 125000
    /\ \E b \in BodySizes :
          IF SharedCounter
          THEN /\ totalBytes' = totalBytes + b
               /\ peer' = [peer EXCEPT !.counted = @ + b]
          ELSE /\ peer' = [totalBytes |-> peer.totalBytes + b,
                           counted |-> peer.counted + b]
               /\ UNCHANGED totalBytes
    /\ UNCHANGED << cfg, rtt, dstatus, pc, cancelled, elapsed, latencyChan,
                    samplerVars, wpc, started, wurl, wbytes, wtmp, mu, counted,
                    accepted, histVars, outVars >>

TwoRunConfigs ==
    {c \in Configs : c.dur = 2 /\ c.nDown = 1 /\ c.nUp = 1 /\ c.chunk = 0}

InitTwoRuns == InitWith(TwoRunConfigs, Latencies)

NextTwoRuns == Next \/ PeerAdd

SpecTwoRuns == InitTwoRuns /\ [][NextTwoRuns]_vars

(***************************************************************************)
(* The run with a configuration that passes every check: both throughput   *)
(* phases run their workers to the deadline and past it.                   *)
(***************************************************************************)
FullRunConfigs ==
    {c \in Configs : c.dur >= 2 /\ c.nDown = 1 /\ c.nUp = 1 /\ c.chunk = 0}

InitFullRun == InitWith(FullRunConfigs, Latencies)

SpecFullRun == InitFullRun /\ [][Next]_vars

(***************************************************************************)
(* RunQualityTest up to the return of measureDownloadSpeed (lines 52-79):  *)
(* the idle pass, then the download stage with its workers and its         *)
(* loaded-latency goroutine, for every NumConnections from 0 on, with and  *)
(* without an upload server behind it.                                     *)
(***************************************************************************)
HandOffConfigs == {c \in Configs : c.dur >= 1 /\ c.nDown = 1 /\ c.chunk = 0}

InitHandOff == InitWith(HandOffConfigs, Latencies)

ProgressHandOff ==
    \/ RunQualityTest
    \/ Probe
    \/ IdleLatencyReturn
    \/ LoadedWake
    \/ LoadedSend
    \/ \E w \in Workers : DownloadLoop(w)
    \/ \E w \in Workers : DownloadComplete(w)
    \/ \E w \in Workers : Lock(w)
    \/ \E w \in Workers : Unlock(w)
    \/ \E w \in Workers : RequestCancelled(w)
    \/ DownloadWait
    \/ DownloadReturn
    \/ Tick

NextHandOff == ProgressHandOff \/ Cancel

SpecHandOff == InitHandOff /\ [][NextHandOff]_vars

(***************************************************************************)
(* The two throughput phases taken alone, each from the state in which its *)
(* workers have just been launched: measureDownloadSpeed (lines 166-199)   *)
(* against an endpoint that answers with any status of ResponseCodes, the  *)
(* idle pass behind it and its loaded-latency goroutine asleep, and        *)
(* measureUploadSpeed (lines 234-284).                                     *)
(***************************************************************************)
ResponseCodes == {200, 404, 500}

CountingConfigs ==
    {c \in Configs : c.dur >= 1 /\ c.nDown = 1 /\ c.nUp = 1}

DownloadStage(configs, codes) ==
    /\ cfg \in configs
    /\ rtt = Latencies
    /\ dstatus = codes
    /\ peer = NoPeer
    /\ pc = "download"
    /\ cancelled = FALSE
    /\ elapsed = 0
    /\ sampler = "sleep"
    /\ i = 0
    /\ successCount = 0
    /\ totalLatency = 0
    /\ unpaced = FALSE
    /\ latencyChan = << >>
    /\ wpc = Spawn(cfg.conn)
    /\ started = 0
    /\ wurl = [w \in Workers |-> NoURL]
    /\ wbytes = Zero
    /\ wtmp = Zero
    /\ mu = NoOwner
    /\ totalBytes = 0
    /\ counted = 0
    /\ accepted = 0
    /\ netIO = {"latency"}
    /\ interrupted = FALSE
    /\ lateStart = FALSE
    /\ lateAttempt = FALSE
    /\ badCounted = FALSE
    /\ hits = {}
    /\ dcodes = NoCodes
    /\ allFailed = {}
    /\ downloaded = NoPhase
    /\ duration = 0
    /\ idleLatency \in Latencies
    /\ loadedLatency = 0
    /\ downloadMbps = NoMbps
    /\ result = << >>
    /\ err = ""

InitCounting ==
    \/ DownloadStage(CountingConfigs, ResponseCodes)
    \/ UploadStage(CountingConfigs, "loop", {0}, Latencies)

NextCounting ==
    \/ \E w \in Workers : DownloadLoop(w)
    \/ \E w \in Workers : DownloadComplete(w)
    \/ \E w \in Workers : Lock(w)
    \/ \E w \in Workers : Unlock(w)
    \/ \E w \in Workers : RequestCancelled(w)
    \/ DownloadWait
    \/ \E w \in Workers : UploadLoop(w)
    \/ \E w \in Workers : UploadComplete(w)
    \/ UploadReturn
    \/ Cancel
    \/ Tick

SpecCounting == InitCounting /\ [][NextCounting]_vars

(***************************************************************************)
(* Properties.                                                             *)
(***************************************************************************)
Returned == pc = "done"
ValidConfig == cfg.dur > 0 /\ cfg.nDown > 0
Finished(w) == wpc[w] \in {"none", "done"}
\* RunQualityTest returned out of measureUploadSpeed's barrier (line 276).
UploadReturned == Returned /\ err \in {"", ErrZeroDuration}

\* C1: the phases are strictly ordered.  A download request has been issued
\* only once the idle sampling pass has completed with a sample and the
\* download stage was entered; an upload request has been issued only once
\* the download stage has returned; and the download stage passes its
\* barrier only when every download worker has finished.
PhaseOrder ==
    /\ "download" \in netIO =>
          /\ pc \in {"download", "receive", "upload", "done"}
          /\ "idle" \notin allFailed
          /\ "latency" \in netIO
    /\ "upload" \in netIO =>
          /\ pc \in {"upload", "done"}
          /\ downloaded # NoPhase
    /\ pc = "receive" => \A w \in Workers : Finished(w)
    /\ pc = "idle" => \A w \in Workers : wpc[w] = "none"

PhaseOrderWitness ==
    /\ Returned
    /\ netIO = {"latency", "download", "upload"}
    /\ result # << >>

\* C2: with testDuration <= 0 or no download endpoint the run returns a
\* configuration error and no result, and no latency probe, download
\* attempt or upload attempt is ever made.
ConfigErrorNoIO ==
    (cfg.dur <= 0 \/ cfg.nDown = 0) =>
        /\ netIO = {}
        /\ started = 0
        /\ sampler = "off" /\ i = 0
        /\ pc \in {"start", "done"}
        /\ Returned => /\ result = << >>
                       /\ err = IF cfg.dur <= 0 THEN ErrDuration
                                                ELSE ErrNoDownload

ConfigErrorNoIOWitness ==
    /\ Returned
    /\ cfg.dur <= 0
    /\ cfg.nDown > 0 /\ cfg.nUp > 0 /\ cfg.conn > 0

\* C3: a returned error comes with no result and a returned result with no
\* error; at the return exactly one of the two is there, and before the
\* return neither is.
ResultXorError ==
    /\ err # "" => result = << >>
    /\ result # << >> => err = ""
    /\ Returned => (err # "" \/ result # << >>)
    /\ ~Returned => (err = "" /\ result = << >>)

ResultXorErrorWitness ==
    /\ Returned
    /\ err = ErrZeroDuration
    /\ downloadMbps # NoMbps

\* C4: a sampling pass without a single successful probe, idle or loaded,
\* makes the run return an error and no result; an idle-latency error is
\* returned only for a pass without a successful probe.  (Stated for the
\* runs most favourable to the claim: workers are configured and the run
\* is not cancelled.)
AllSamplesFailedIsFatal ==
    /\ (Returned /\ allFailed # {} /\ cfg.conn > 0 /\ ~cancelled) =>
          (err # "" /\ result = << >>)
    /\ err = ErrIdle => "idle" \in allFailed

\* C5 as stated: every configuration error, the empty upload endpoint list
\* included, is returned before any network I/O.
AllConfigErrorsBeforeIO ==
    err \in {ErrDuration, ErrNoDownload, ErrNoUpload} => netIO = {}

\* C5 as amended: the two precondition errors (duration, download
\* endpoints) are returned by the first step of the run, before any
\* network I/O; the empty upload endpoint list is detected only when the
\* upload stage is entered, after the idle pass and the download stage
\* have done their I/O.
PreconditionErrorsBeforeIO ==
    /\ err \in {ErrDuration, ErrNoDownload} =>
          (netIO = {} /\ started = 0 /\ elapsed = 0)
    /\ ((cfg.dur <= 0 \/ cfg.nDown = 0) /\ pc # "start") =>
          (Returned /\ err \in {ErrDuration, ErrNoDownload})
    /\ err = ErrNoUpload =>
          (cfg.nUp = 0 /\ "latency" \in netIO /\ downloaded # NoPhase)

PreconditionErrorsBeforeIOWitness ==
    /\ err = ErrNoUpload
    /\ {"latency", "download"} \subseteq netIO

\* C6: with an empty upload endpoint list and an otherwise valid
\* configuration no upload request is ever issued and the upload stage
\* never runs its workers; the run returns no result; once the idle
\* pass has a sample the error returned is the upload-stage error, and that
\* error is returned only after the idle pass and the download stage have
\* completed.
EmptyUploadFailsLate ==
    (ValidConfig /\ cfg.nUp = 0) =>
        /\ "upload" \notin netIO
        /\ pc # "upload"
        /\ Returned =>
              /\ result = << >>
              /\ err = IF "idle" \in allFailed THEN ErrIdle ELSE ErrNoUpload
        /\ err = ErrNoUpload =>
              /\ "latency" \in netIO
              /\ idleLatency \in Latencies
              /\ downloaded # NoPhase
              /\ downloadMbps # NoMbps

EmptyUploadFailsLateWitness ==
    /\ Returned
    /\ cfg.nUp = 0
    /\ err = ErrNoUpload
    /\ downloaded.bytes > 0

\* C7: no update of the shared counter is lost.  Whenever every worker of
\* the phase has finished, the counter equals the sum of the byte counts
\* of all counted attempts of the phase.
NoLostUpdate ==
    (\A w \in Workers : Finished(w)) => totalBytes = counted

NoLostUpdateWitness ==
    /\ pc = "receive"
    /\ \A w \in Workers : wpc[w] = "done"
    /\ started = MaxAttempts
    /\ totalBytes = MaxAttempts * 125000

\* C8: every probe of the loaded sampling pass is taken while at least one
\* download worker is still running.  (Stated for the runs most favourable
\* to the claim: workers are configured and the run is not cancelled.)
LoadedProbeUnderLoad ==
    [][(sampler = "loaded" /\ i' = i + 1 /\ cfg.conn > 0 /\ ~cancelled)
          => \E w \in Workers : Running(w)]_vars

LabelByThreshold ==
    result # << >> =>
        LET ms == result[1].ResponsivenessMs
            label == result[1].Responsiveness
        IN  /\ ms = loadedLatency
            /\ label \in {"High", "Medium", "Low"}
            /\ label = "High" <=> ms < 200
            /\ label = "Medium" <=> (200 <= ms /\ ms < 1000)
            /\ label = "Low" <=> ms >= 1000
            /\ ms = 199 => label = "High"
            /\ ms = 200 => label = "Medium"
            /\ ms = 999 => label = "Medium"
            /\ ms = 1000 => label = "Low"

LabelByThresholdWitness ==
    /\ result # << >>
    /\ result[1].ResponsivenessMs = 1000
    /\ result[1].Responsiveness = "Low"
    /\ cfg.conn > 0
Sampling == sampler \in {"idle", "loaded"}

\* C12: one sampling pass issues exactly 10 probes, one after the other,
\* however many fail; a failed or cancelled probe adds no sample and is
\* not retried; the pass returns the mean of the successful samples only
\* (with one success that sample's value) and fails with no success.
TenProbesMeanOfSuccesses ==
    /\ [](Sampling => (i <= numTests /\ successCount <= i))
    /\ [][(i' = i + 1) =>
            /\ Sampling /\ i < numTests
            /\ \/ /\ successCount' = successCount
                  /\ totalLatency' = totalLatency
               \/ /\ ~cancelled
                  /\ successCount' = successCount + 1
                  /\ (totalLatency' - totalLatency) \in rtt]_vars
    /\ [][(sampler = "idle" /\ sampler' # "idle") =>
            /\ i = numTests
            /\ IF successCount = 0
               THEN /\ err' = ErrIdle /\ result' = << >> /\ pc' = "done"
                    /\ "idle" \in allFailed'
               ELSE /\ idleLatency' * successCount <= totalLatency
                    /\ totalLatency < (idleLatency' + 1) * successCount
                    /\ successCount = 1 => idleLatency' = totalLatency
                    /\ err' = "" /\ pc' = "download"]_vars
    /\ [][(sampler = "loaded" /\ sampler' # "loaded") =>
            /\ i = numTests
            /\ Len(latencyChan') = 1
            /\ IF successCount = 0
               THEN "loaded" \in allFailed'
               ELSE /\ latencyChan'[1] * successCount <= totalLatency
                    /\ totalLatency < (latencyChan'[1] + 1) * successCount
                    /\ successCount = 1 => latencyChan'[1] = totalLatency
                    /\ "loaded" \notin allFailed']_vars

TenProbesWitness ==
    /\ sampler = "idle"
    /\ i = numTests
    /\ successCount = 1
    /\ totalLatency = 201
    /\ cancelled
\* C13: with every request completing or timing out, every worker of a
\* phase exits once the phase deadline has passed or cancellation is set,
\* the barrier of each phase is released, and the call returns a result
\* or an error.
Terminates ==
    /\ <>(Returned /\ (result # << >> \/ err # ""))
    /\ [](pc = "receive" => \A w \in Workers : ~Running(w))
    /\ [](Returned => \A w \in Workers : ~Running(w))
    /\ [](err = "" /\ result = << >> => ~Returned)

TerminatesWitness ==
    /\ Returned
    /\ result # << >>
    /\ cfg.conn = MaxConn
    /\ elapsed > cfg.dur \div 2
    /\ totalBytes > 0
Launched == {w \in Workers : wpc[w] # "none"}

\* C14: each throughput phase launches exactly connectionCount workers,
\* and when the byte total of a phase is read for the bitrate (after the
\* barrier) every one of them has finished, none holds the mutex and the
\* total is complete; the upload bitrate is computed from that total.
ExactlyConnWorkers ==
    /\ pc \in {"download", "receive", "upload"} =>
          /\ Cardinality(Launched) = cfg.conn
          /\ Launched = {w \in Workers : w < cfg.conn}
    /\ pc \in {"start", "idle"} => Launched = {}
    /\ (pc = "receive" \/ UploadReturned) =>
          /\ \A w \in Launched : wpc[w] = "done"
          /\ mu = NoOwner
          /\ totalBytes = counted
    /\ (UploadReturned /\ err = "") =>
          /\ Cardinality(Launched) = cfg.conn
          /\ result[1].UplinkCapacity = Mbps(counted, elapsed)
    /\ downloaded # NoPhase =>
          downloadMbps = Mbps(downloaded.bytes, downloaded.ticks)

ExactlyConnWorkersWitness ==
    /\ UploadReturned
    /\ err = ""
    /\ cfg.conn = 1
    /\ wpc[0] = "done"
    /\ totalBytes > 0
    /\ downloaded.bytes > 0
InFlight == {w \in Workers : wpc[w] = "inflight"}

\* C15: a failed attempt neither ends its worker nor shows in the outcome.
\* A worker has exited only with its phase deadline passed (phase start +
\* testDuration for download, + testDuration/2 for upload) or
\* cancellation set; no attempt is started at or after the deadline; the
\* attempts that failed (started, not in flight, not counted) added
\* nothing; and an error is returned only for its own cause, never for a
\* failed attempt.
NeverGivesUp ==
    /\ ~lateAttempt
    /\ \A w \in Workers :
          (pc \in {"download", "receive"} /\ wpc[w] = "done") =>
              (cancelled \/ elapsed >= cfg.dur)
    /\ \A w \in Workers :
          ((pc = "upload" \/ UploadReturned) /\ wpc[w] = "done") =>
              (cancelled \/ elapsed >= cfg.dur \div 2)
    /\ accepted + Cardinality(InFlight) <= started
    /\ totalBytes <= counted
    /\ pc \in {"download", "receive"} => counted = accepted * 125000
    /\ pc \in {"download", "receive", "upload"} => err = ""
    /\ err = ErrDuration => cfg.dur <= 0
    /\ err = ErrNoDownload => cfg.nDown = 0
    /\ err = ErrIdle => "idle" \in allFailed
    /\ err = ErrNoUpload => cfg.nUp = 0
    /\ err = ErrZeroDuration => elapsed = 0
    /\ UploadReturned => (err = "" <=> elapsed # 0)

NeverGivesUpWitness ==
    /\ pc = "download"
    /\ cfg.conn = 1
    /\ ~cancelled
    /\ started = 2
    /\ accepted = 0
    /\ wpc[0] = "inflight"
\* C16: in the upload phase an attempt is counted only if its response
\* status is in [200,400), and every counted attempt adds exactly the
\* chunk size, which is the default 512 KiB for a configured size <= 0:
\* the upload total is (number of counted attempts) * chunkSize, and it is
\* what the bitrate is computed from.
UploadCountsChunks ==
    LET size == IF cfg.chunk <= 0 THEN 524288 ELSE cfg.chunk
    IN  /\ ~badCounted
        /\ (pc = "upload" \/ UploadReturned) =>
              /\ counted = accepted * size
              /\ accepted + Cardinality(InFlight) <= started
              /\ \A w \in Workers :
                    wpc[w] \in {"lock", "add"} => wbytes[w] = size
              /\ (\A w \in Workers : Finished(w)) =>
                    totalBytes = accepted * size
        /\ (UploadReturned /\ err = "") =>
              result[1].UplinkCapacity = Mbps(accepted * size, elapsed)

UploadCountsChunksWitness ==
    /\ UploadReturned
    /\ err = ""
    /\ cfg.chunk < 0
    /\ started = 2
    /\ accepted = 1
    /\ totalBytes = 524288
\* C17: the byte counter belongs to one phase of one call.  It is 0 when
\* the phase starts; the upload bitrate is computed from the bytes the
\* upload attempts of this call counted, whatever the download phase
\* counted; and a second call running at the same time adds only to its
\* own counter, so each counter holds exactly what its own call counted.
CounterOwnedByPhase ==
    /\ (pc \in {"download", "upload"} /\ started = 0) =>
          (totalBytes = 0 /\ counted = 0)
    /\ totalBytes <= counted
    /\ (\A w \in Workers : Finished(w)) => totalBytes = counted
    /\ peer.totalBytes = peer.counted
    /\ (pc = "upload" \/ UploadReturned) =>
          counted = accepted * (IF cfg.chunk <= 0 THEN 524288 ELSE cfg.chunk)
    /\ (UploadReturned /\ err = "") =>
          /\ result[1].UplinkCapacity = Mbps(counted, elapsed)
          /\ result[1].DownlinkCapacity =
                Mbps(downloaded.bytes, downloaded.ticks)

CounterOwnedByPhaseWitness ==
    /\ UploadReturned
    /\ err = ""
    /\ cfg.conn = MaxConn
    /\ downloaded.bytes = 250000
    /\ peer.totalBytes = 250000
    /\ totalBytes = 524288
\* C18: an attempt started before the phase deadline is counted when it
\* completes, also after the deadline; no attempt starts at or after the
\* deadline and a worker at its loop check after the deadline can only
\* exit, so a worker has at most one attempt past the deadline; and the
\* elapsed time of the bitrate is the clock read when the barrier is
\* passed, with every worker finished and the total complete, not the
\* nominal deadline.
OverrunCounted ==
    /\ [](~lateAttempt)
    /\ [][\A w \in Workers :
            (wpc[w] = "inflight" /\ wpc'[w] = "lock") =>
                /\ accepted' = accepted + 1
                /\ counted' = counted + wbytes'[w]
                /\ wbytes'[w] = IF pc = "upload" THEN 524288 ELSE 125000]_vars
    /\ [][\A w \in Workers :
            (wpc[w] = "add" /\ wpc'[w] # "add") =>
                totalBytes' = totalBytes + wbytes[w]]_vars
    /\ [][\A w \in Workers :
            (pc \in {"download", "upload"} /\ wpc[w] = "loop"
               /\ wpc'[w] # "loop"
               /\ elapsed >= (IF pc = "upload" THEN cfg.dur \div 2
                                               ELSE cfg.dur)) =>
                wpc'[w] = "done"]_vars
    /\ [][(pc = "download" /\ pc' = "receive") =>
            /\ duration' = elapsed
            /\ \A w \in Workers : Finished(w)
            /\ totalBytes = counted]_vars
    /\ [][(pc = "receive" /\ pc' # "receive") =>
            /\ downloadMbps' = Mbps(counted, duration)
            /\ totalBytes = counted]_vars
    /\ [][(pc = "upload" /\ pc' = "done" /\ err' = "") =>
            /\ result'[1].UplinkCapacity = Mbps(counted, elapsed)
            /\ \A w \in Workers : Finished(w)
            /\ totalBytes = counted]_vars

OverrunCountedWitness ==
    /\ pc = "receive"
    /\ ~cancelled
    /\ cfg.conn = 1
    /\ duration > cfg.dur
    /\ accepted = 2
    /\ totalBytes = 250000
\* C19: every request of upload worker i goes to upload server
\* i mod len(uploadEndpoints), the same for all its attempts; the servers
\* that received a request are those of the launched workers, so with
\* fewer workers than servers the servers at index >= connectionCount
\* receive none.
RoundRobinEndpoint ==
    (pc = "upload" \/ UploadReturned) =>
        /\ \A w \in Workers :
              IF wpc[w] = "inflight"
              THEN w < cfg.conn /\ wurl[w] = w % cfg.nUp
              ELSE wurl[w] = NoURL
        /\ hits \subseteq {w % cfg.nUp : w \in {v \in Workers : v < cfg.conn}}
        /\ cfg.conn < cfg.nUp => \A e \in hits : e < cfg.conn
        /\ hits # {} <=> started > 0
        /\ Cardinality(hits) <= started

RoundRobinEndpointWitness ==
    /\ UploadReturned
    /\ cfg.nUp = 3
    /\ cfg.conn = 2
    /\ hits = {0, 1}
    /\ accepted = 2
\* C20: within one sampling pass every two consecutive probes are
\* separated by the 100 ms pacing delay, whether the earlier of the two
\* succeeded or failed.  (Stated for the runs most favourable to the
\* claim: the run is not cancelled.)
ProbesPaced == ~cancelled => ~unpaced
\* C21: the download stage never returns an error, whatever it measured
\* (no byte, no loaded sample, a zero elapsed time, a cancelled run).  With
\* a configuration that passes the two checks an error comes from the idle
\* pass, before the download stage, or from the upload stage, after it,
\* with no upload endpoint or a zero upload elapsed time.
DownloadNeverFails ==
    /\ err # ErrDownload
    /\ pc \in {"download", "receive", "upload"} => err = ""
    /\ downloaded # NoPhase =>
          /\ err \in {"", ErrNoUpload, ErrZeroDuration}
          /\ pc \in {"upload", "done"}
          /\ downloadMbps # NoMbps
    /\ (ValidConfig /\ err # "") =>
          /\ err \in {ErrIdle, ErrNoUpload, ErrZeroDuration}
          /\ err = ErrIdle => (downloaded = NoPhase /\ "idle" \in allFailed)
          /\ err = ErrNoUpload => (downloaded # NoPhase /\ cfg.nUp = 0)
          /\ err = ErrZeroDuration =>
                (downloaded # NoPhase /\ cfg.nUp > 0 /\ elapsed = 0)

DownloadNeverFailsWitness ==
    /\ Returned
    /\ err = ""
    /\ result # << >>
    /\ cancelled
    /\ "loaded" \in allFailed
    /\ downloaded = [bytes |-> 0, ticks |-> 0]
    /\ downloadMbps.kind = "NaN"
\* C22: cancellation is not an error once the idle pass has succeeded.  A
\* run that was cancelled, at whatever moment, whose idle pass had a sample
\* and whose upload endpoint list is not empty, returns a result and no
\* error when the measured upload elapsed time is not zero; its capacities
\* are computed from the bytes the two phases counted.  The only errors of
\* a cancelled run past the download stage are the two upload-stage errors,
\* each for its own cause.
CancelIsNotAnError ==
    /\ (Returned /\ cancelled /\ ValidConfig /\ "idle" \notin allFailed
          /\ cfg.nUp > 0 /\ elapsed # 0) =>
          /\ err = ""
          /\ result # << >>
          /\ result[1].UplinkCapacity = Mbps(counted, elapsed)
          /\ result[1].DownlinkCapacity =
                Mbps(downloaded.bytes, downloaded.ticks)
          /\ result[1].IdleLatency = idleLatency
    /\ (cancelled /\ pc \in {"download", "receive", "upload"}) => err = ""
    /\ (cancelled /\ downloaded # NoPhase /\ err # "") =>
          \/ err = ErrNoUpload /\ cfg.nUp = 0
          \/ err = ErrZeroDuration /\ elapsed = 0

CancelIsNotAnErrorWitness ==
    /\ Returned
    /\ cancelled
    /\ interrupted
    /\ "loaded" \in allFailed
    /\ downloaded.bytes > 0
    /\ totalBytes = 0
    /\ err = ""
    /\ result # << >>
InDownloadStage == pc \in {"download", "receive"}

\* C23: the loaded-latency hand-off neither deadlocks nor leaks.  The
\* goroutine exists exactly while the download stage runs; it sends once,
\* at the end of its pass, into the empty one-slot channel, whether the
\* pass had a sample or not; the stage receives that one value, after the
\* barrier, and only then returns, so when the upload phase starts no
\* probe is in flight and the channel is empty.  Nothing blocks for ever:
\* the send is possible as soon as the pass is over, and while the stage
\* waits for the value the goroutine can still sleep, probe or send, or the
\* value is there to receive, with any number of workers, 0 included.
HandOff ==
    /\ [](Len(latencyChan) <= 1)
    /\ [](Len(latencyChan) = 1 <=> sampler = "sent")
    /\ [](InDownloadStage <=> sampler \in {"sleep", "loaded", "sent"})
    /\ [](pc \in {"upload", "done"} =>
            (sampler = "off" /\ latencyChan = << >> /\ i = 0))
    /\ [][latencyChan' # latencyChan =>
            \/ /\ sampler = "loaded" /\ i = numTests
               /\ latencyChan = << >>
               /\ Len(latencyChan') = 1
               /\ latencyChan'[1] = LoadedValue(totalLatency, successCount)
               /\ sampler' = "sent"
            \/ /\ pc = "receive" /\ pc' \in {"upload", "done"}
               /\ \A w \in Workers : Finished(w)
               /\ sampler = "sent"
               /\ loadedLatency' = latencyChan[1]
               /\ latencyChan' = << >>]_vars
    /\ [][sampler' # sampler =>
            << sampler, sampler' >> \in
               { << "off", "idle" >>, << "idle", "off" >>,
                 << "idle", "sleep" >>, << "sleep", "loaded" >>,
                 << "loaded", "sent" >>, << "sent", "off" >> }]_vars
    /\ [][(InDownloadStage /\ ~InDownloadStage') =>
            /\ pc = "receive"
            /\ sampler = "sent" /\ sampler' = "off"
            /\ Len(latencyChan) = 1]_vars
    /\ []((sampler = "loaded" /\ i = numTests) => ENABLED LoadedSend)
    /\ [](pc = "receive" =>
            \/ sampler = "sleep" /\ elapsed < LoadDelay /\ ENABLED Tick
            \/ sampler = "sleep" /\ ENABLED LoadedWake
            \/ sampler = "loaded" /\ ENABLED (Probe \/ LoadedSend)
            \/ sampler = "sent" /\ ENABLED DownloadReturn)

HandOffWitness ==
    /\ pc = "upload"
    /\ cfg.conn = 0
    /\ "loaded" \in allFailed
    /\ loadedLatency = 0
    /\ downloaded = [bytes |-> 0, ticks |-> 0]
    /\ sampler = "off"
    /\ latencyChan = << >>
\* C24: in the download phase every attempt that got a response is
\* counted with the bytes of its body, whatever the status code, 4xx and
\* 5xx included: no response is skipped, the total is the number of
\* responses times the body size, and an attempt that added nothing had
\* no response.  In the upload phase an attempt with a status outside
\* [200,400) is never counted and each counted attempt adds the chunk
\* size.
CountsAnyStatus ==
    /\ dcodes.skipped = {}
    /\ dcodes.counted \subseteq dstatus
    /\ pc \in {"download", "receive"} =>
          /\ counted = accepted * 125000
          /\ dcodes.counted = {} <=> accepted = 0
          /\ Cardinality(dcodes.counted) <= accepted
          /\ accepted + Cardinality(InFlight) <= started
          /\ \A w \in Workers :
                wpc[w] \in {"lock", "add"} => wbytes[w] = 125000
          /\ (\A w \in Workers : Finished(w)) =>
                totalBytes = accepted * 125000
    /\ (pc = "upload" \/ UploadReturned) =>
          /\ ~badCounted
          /\ dcodes = NoCodes
          /\ counted = accepted * ChunkSize(cfg)
          /\ (\A w \in Workers : Finished(w)) =>
                totalBytes = accepted * ChunkSize(cfg)

CountsAnyStatusWitness ==
    /\ pc = "receive"
    /\ ~cancelled
    /\ dcodes.counted = {404, 500}
    /\ accepted = 2
    /\ totalBytes = 250000
====
